---- MODULE Spec2Model ----
(***************************************************************************)
(* Model of the update pipeline of dkc_updater (src/updater.py):           *)
(* UpdaterApp (the controller, living on the GUI thread) and               *)
(* DownloadThread (the download worker).                                   *)
(***************************************************************************)
EXTENDS Integers, Sequences, FiniteSets, TLC

(***************************************************************************)
(* Python strings are sequences of one-character strings, so that split,   *)
(* int() and string comparison are computed and not assumed.               *)
(* None is a value that is no string: a one-element sequence holding a     *)
(* token that is no character.                                             *)
(***************************************************************************)
None == <<"None">>

Digits == <<"0", "1", "2", "3", "4", "5", "6", "7", "8", "9">>

IsDigit(c) == \E i \in 1..10 : Digits[i] = c

DigitVal(c) == (CHOOSE i \in 1..10 : Digits[i] = c) - 1

\* str.split('.'): the pieces between the dots; "" gives <<"">>, "1." gives <<"1", "">>.
RECURSIVE SplitFrom(_, _, _)
SplitFrom(s, i, cur) ==
    IF i > Len(s) THEN <<cur>>
    ELSE IF s[i] = "." THEN <<cur>> \o SplitFrom(s, i + 1, <<>>)
    ELSE SplitFrom(s, i + 1, Append(cur, s[i]))

Split(s) == SplitFrom(s, 1, <<>>)

\* int(piece) succeeds on a non-empty run of decimal digits (the characters of
\* the model: digits, '.', letters); anything else raises ValueError.
IntOk(p) == Len(p) > 0 /\ \A i \in 1..Len(p) : IsDigit(p[i])

RECURSIVE IntVal(_)
IntVal(p) ==
    IF Len(p) = 0 THEN 0
    ELSE 10 * IntVal(SubSeq(p, 1, Len(p) - 1)) + DigitVal(p[Len(p)])

\* tuple(map(int, v.split('.'))): the tuple t, or ok = FALSE when it raises
\* (None has no split; int() rejects a piece).
ParseVersion(v) ==
    IF v = None THEN [ok |-> FALSE, t |-> <<>>]
    ELSE LET pieces == Split(v)
         IN  IF \A i \in 1..Len(pieces) : IntOk(pieces[i])
             THEN [ok |-> TRUE, t |-> [i \in 1..Len(pieces) |-> IntVal(pieces[i])]]
             ELSE [ok |-> FALSE, t |-> <<>>]

\* Python's tuple comparison ver_a > ver_b: the first differing pair decides;
\* without one, the longer tuple is the greater.
RECURSIVE TupleGreaterFrom(_, _, _)
TupleGreaterFrom(ta, tb, i) ==
    IF i > Len(ta) THEN FALSE
    ELSE IF i > Len(tb) THEN TRUE
    ELSE IF ta[i] # tb[i] THEN ta[i] > tb[i]
    ELSE TupleGreaterFrom(ta, tb, i + 1)

TupleGreater(ta, tb) == TupleGreaterFrom(ta, tb, 1)

\* A plausible slip: comparing the version strings as strings, not as tuples
\* of integers (character by character: '.' < digits < letters, so that
\* "1.10.0" < "1.2.0").
CharOrd(c) == IF c = "." THEN 0 ELSE IF IsDigit(c) THEN 1 + DigitVal(c) ELSE 11

RECURSIVE StrGreaterFrom(_, _, _)
StrGreaterFrom(a, b, i) ==
    IF i > Len(a) THEN FALSE
    ELSE IF i > Len(b) THEN TRUE
    ELSE IF a[i] # b[i] THEN CharOrd(a[i]) > CharOrd(b[i])
    ELSE StrGreaterFrom(a, b, i + 1)

is_newer_version_strcmp(version_a, version_b) ==
    IF version_a = None \/ version_b = None THEN version_a # version_b
    ELSE StrGreaterFrom(version_a, version_b, 1)

\* A plausible slip: >= in place of >.
is_newer_version_geq(version_a, version_b) ==
    LET ver_a == ParseVersion(version_a)
        ver_b == ParseVersion(version_b)
    IN  IF ver_a.ok /\ ver_b.ok
        THEN ver_a.t = ver_b.t \/ TupleGreater(ver_a.t, ver_b.t)
        ELSE version_a # version_b

\* UpdaterApp.is_newer_version: the bare except turns every failure of the
\* parse into the inequality test.
is_newer_version(version_a, version_b) ==
    LET ver_a == ParseVersion(version_a)
        ver_b == ParseVersion(version_b)
    IN  IF ver_a.ok /\ ver_b.ok
        THEN TupleGreater(ver_a.t, ver_b.t)
        ELSE version_a # version_b

(***************************************************************************)
(* Directory trees.  A directory is a function from entry names to         *)
(* entries; an entry is a file with its data or a directory with its       *)
(* children.                                                               *)
(***************************************************************************)
EmptyDir == [n \in {} |-> None]

File(d) == [kind |-> "file", data |-> d, children |-> EmptyDir]

Dir(c) == [kind |-> "dir", data |-> "", children |-> c]

Put(dir, name, entry) ==
    [n \in (DOMAIN dir) \cup {name} |-> IF n = name THEN entry ELSE dir[n]]

\* str.lower() on the entry names of the model: the only names with upper
\* case letters are Updater.EXE and UPDATER.PY.
Lower(item) ==
    CASE item = "Updater.EXE" -> "updater.exe"
      [] item = "UPDATER.PY" -> "updater.py"
      [] OTHER -> item

\* A plausible slip: comparing the name without lower().
IsUpdaterArtifact_nolower(item) == item = "updater.exe" \/ item = "updater.py"

\* line 513: item.lower() == "updater.exe" or item.lower() == "updater.py"
IsUpdaterArtifact(item) == Lower(item) = "updater.exe" \/ Lower(item) = "updater.py"

\* The result of a copy, a merge or an extraction: the destination
\* directory afterwards, whether the call returned (ok) or raised, and
\* whether it raised for a fault of the file system (permission denied,
\* disk full) and not for what the directories hold.
Outcome(dst, ok) == [dst |-> dst, ok |-> ok, fault |-> FALSE]

Fault(dst) == [dst |-> dst, ok |-> FALSE, fault |-> TRUE]

\* shutil.copy2(src_path, dst_path) for a file of the package.  Onto a
\* directory it copies into it under the file's own name.  With faulty, the
\* file system may refuse the copy, the destination then being as it was.
CopyFile(data, dst, item, faulty) ==
    (IF faulty THEN {Fault(dst)} ELSE {}) \cup
    (IF item \in DOMAIN dst /\ dst[item].kind = "dir"
     THEN LET inner == dst[item].children
          IN  IF item \in DOMAIN inner /\ inner[item].kind = "dir"
              THEN {Outcome(dst, FALSE)}
              ELSE {Outcome(Put(dst, item, Dir(Put(inner, item, File(data)))), TRUE)}
     ELSE {Outcome(Put(dst, item, File(data)), TRUE)})

Nested(dst, item, o) == [o EXCEPT !.dst = Put(dst, item, Dir(o.dst))]

\* UpdaterApp.copy_with_overwrite.  os.listdir gives the entries in an
\* arbitrary order; rest is the set of entries of src_dir still to visit.
RECURSIVE CopyRest(_, _, _, _)
CopyItem(src, dst, item, faulty) ==
    IF IsUpdaterArtifact(item) THEN {Outcome(dst, TRUE)}
    ELSE IF src[item].kind = "dir"
    THEN IF item \notin DOMAIN dst
         THEN \* os.makedirs(dst_path), which may raise, then the recursion
              (IF faulty THEN {Fault(dst)} ELSE {}) \cup
              {Nested(dst, item, o) :
                  o \in CopyRest(src[item].children, EmptyDir,
                                 DOMAIN src[item].children, faulty)}
         ELSE IF dst[item].kind = "dir"
         THEN {Nested(dst, item, o) :
                  o \in CopyRest(src[item].children, dst[item].children,
                                 DOMAIN src[item].children, faulty)}
         ELSE \* dst_path is a file: the first entry that is not skipped raises
              IF \A c \in DOMAIN src[item].children : IsUpdaterArtifact(c)
              THEN {Outcome(dst, TRUE)}
              ELSE {Outcome(dst, FALSE)}
    ELSE CopyFile(src[item].data, dst, item, faulty)

CopyRest(src, dst, rest, faulty) ==
    IF rest = {} THEN {Outcome(dst, TRUE)}
    ELSE UNION { UNION { IF o.ok THEN CopyRest(src, o.dst, rest \ {item}, faulty)
                         ELSE {o} :
                         o \in CopyItem(src, dst, item, faulty) } :
                 item \in rest }

copy_with_overwrite(src_dir, dst_dir, faulty) ==
    CopyRest(src_dir, dst_dir, DOMAIN src_dir, faulty)

(***************************************************************************)
(* Strings that are written as literals.                                    *)
(***************************************************************************)
V100 == <<"1", ".", "0", ".", "0">>
V200 == <<"2", ".", "0", ".", "0">>

\* is_newer_version on the versions that manifests, descriptors and the
\* configuration of the model hold, tabulated.
Newer ==
    [version_a \in {None, V100, V200} |->
        [version_b \in {None, V100, V200} |-> is_newer_version(version_a, version_b)]]

\* A URL is a string of one token; "" is the empty sequence.
PkgUrl == <<"https://x/pkg.zip">>
EmptyStr == <<>>

\* The attribute update_url before the first successful manifest parse: it
\* is not set in __init__.
Unset == <<"unset">>

\* Python truthiness of a str-or-None value.
Truthy(v) == v # None /\ v # Unset /\ Len(v) > 0

(***************************************************************************)
(* The environment: the manifest server, the package server, the packages. *)
(***************************************************************************)
MaxChunks == 2
MaxWorkers == 2
MaxFaults == 1

\* update_info of a manifest response that parsed as a JSON object;
\* .get() gives None for an absent field.
Manifests ==
    {m \in [version : {None, V100, V200}, download_url : {None, EmptyStr, PkgUrl}] :
        m.version = V200 \/ m.download_url = PkgUrl}

\* The packages the server may send: a valid archive with version.json, a
\* valid archive without it, and a body that is no zip archive.
Packages == {"good", "plain", "corrupt"}

\* The valid archives: those two, and archives whose version.json is no JSON
\* document (garbled), is {} (nofield) or is {"version": null} (nullver).
Archives == {"good", "plain", "garbled", "nofield", "nullver"}

Descriptor(p) ==
    CASE p = "garbled" -> "not json"
      [] p = "nofield" -> "{}"
      [] p = "nullver" -> "version:null"
      [] OTHER -> "version:2.0.0"

Chunks(p) == IF p = "good" THEN MaxChunks ELSE 1

\* The top-level entries of a package's archive, in the archive's order.
PackageEntries(p) ==
    IF p = "good" THEN <<"lib", "updater.py", "app.py", "version.json">>
    ELSE IF p \in {"garbled", "nofield", "nullver"} THEN <<"app.py", "version.json">>
    ELSE <<"app.py">>

PackageEntry(p, n) ==
    IF n = "version.json" THEN File(Descriptor(p))
    ELSE IF n = "lib" THEN Dir([m \in {"Updater.EXE", "mod.py"} |-> File("v2")])
    ELSE File("v2")

\* The tree of the first k top-level entries of the archive.
PackagePrefix(p, k) ==
    [n \in {PackageEntries(p)[i] : i \in 1..k} |-> PackageEntry(p, n)]

PackageTree(p) == PackagePrefix(p, Len(PackageEntries(p)))

\* The Content-Length the server may send with a package, in chunks: 0 for
\* no header (or a header of 0), the true length, or a length smaller than
\* what the stream delivers (the length of a compressed body).
ContentLengths(p) ==
    IF p = "good" THEN {0, 1, Chunks(p)} ELSE IF p = "plain" THEN {Chunks(p)} ELSE {0}

\* The bytes of a package, one element per chunk of the stream.
PackageData(p) == [i \in 1..Chunks(p) |-> <<p, i>>]

Hole == <<"hole", 0>>

LiveInit ==
    [n \in {"app.py", "updater.py"} |-> File("v1")]

ConfigInit ==
    [app_name |-> "YourApp", current_version |-> V100,
     update_url |-> "latest.json", website_url |-> "website"]

VARIABLES
    check_btn,          \* check_btn.isEnabled()
    download_btn,       \* download_btn.isEnabled()
    update_available,
    update_url,
    download_thread,    \* the worker self.download_thread refers to, 0 for None
    timer_pending,      \* the QTimer.singleShot of __init__ has not fired yet
    config,             \* self.config
    config_file,        \* the content of updater_config.json
    temp_dir,           \* the staging directory exists
    zip,                \* temp_dir/update.zip: [exists, data]
    extracted,          \* temp_dir/extracted: [exists, tree]
    live,               \* the application directory (app_dir), a tree
    workers,            \* the DownloadThread objects, in the order of creation
    queue,              \* the queued completed_signal emissions, in order
    faults,             \* the faults of the file system so far
    closed,             \* closeEvent has run
    aborted,            \* the process was aborted by Qt
    hist,               \* what the last step did (for stating the properties)
    va, vb, vres,       \* the version comparison under check
    msrc, mdst0, mdst, mres   \* the merge under check

gui == <<check_btn, download_btn>>
ctl == <<update_available, update_url, download_thread, timer_pending>>
cfg == <<config, config_file>>
fs == <<temp_dir, zip, extracted, live, faults>>
thr == <<workers, queue>>
proc == <<closed, aborted>>
pipeline == <<gui, ctl, cfg, fs, thr, proc, hist>>
pure == <<va, vb, vres, msrc, mdst0, mdst, mres>>
vars == <<pipeline, pure>>

\* The DownloadThread objects of a run are numbered in the order in which
\* download_update creates them; a run creates at most MaxWorkers.
Slots == 1..MaxWorkers

NoFile == [exists |-> FALSE, data |-> <<>>]

IdleWorker ==
    [pc |-> "idle", url |-> EmptyStr, pkg |-> "", total_size |-> 0, left |-> 0,
     downloaded |-> 0, error |-> "", log |-> <<>>,
     zip_at_start |-> NoFile, zip_same |-> TRUE]

\* A worker whose completed_signal has been handled: nothing of it is left.
HandledWorker == [IdleWorker EXCEPT !.pc = "handled"]

Event(w, sig, n, ok) == [w |-> w, sig |-> sig, n |-> n, ok |-> ok]

NoManifest == [version |-> None, download_url |-> None]

\* What a step did: the handler that ran (op), what it showed the user (status: the text given to set_status or to
\* status_label.setText; dialog: the title of the QMessageBox), the outcome
\* of a check and the manifest it parsed, the outcome of an install and the
\* live directory before it (save_failed: the inner try of lines 477-488
\* raised for a fault of the file system).  failed is kept from step to step: an
\* operation has failed and no trigger has been received since; so is last,
\* the outcome of the last check_for_updates that has run, and last_parsed,
\* the outcome of the last one that got a manifest.  auto: the
\* step started an operation without a trigger while failed was set.
HistInit ==
    [op |-> "init", failed |-> FALSE, last |-> "none", last_parsed |-> "none",
     auto |-> FALSE,
     status |-> "", dialog |-> "",
     check |-> "none", parsed |-> FALSE, manifest |-> NoManifest,
     stage |-> "none", save_failed |-> FALSE, live_before |-> EmptyDir]

Step(op) ==
    [HistInit EXCEPT !.op = op, !.failed = hist.failed, !.last = hist.last,
                     !.last_parsed = hist.last_parsed]

\* UpdaterApp.__init__ (the window is shown, the timer is armed).
InitPipeline ==
    /\ check_btn = TRUE
    /\ download_btn = FALSE
    /\ update_available = FALSE
    /\ update_url = Unset
    /\ download_thread = 0
    /\ timer_pending = TRUE
    /\ config = ConfigInit
    /\ config_file = ConfigInit
    /\ temp_dir = TRUE
    /\ zip = NoFile
    /\ extracted = [exists |-> FALSE, tree |-> EmptyDir]
    /\ live = LiveInit
    /\ faults = 0
    /\ workers = [w \in Slots |-> IdleWorker]
    /\ queue = <<>>
    /\ closed = FALSE
    /\ aborted = FALSE
    /\ hist = HistInit

NoVersion == [str |-> None, wellformed |-> FALSE, tuple |-> <<>>]

IdleCompare == va = NoVersion /\ vb = NoVersion /\ vres = "idle"

IdleMerge ==
    msrc = EmptyDir /\ mdst0 = EmptyDir /\ mdst = EmptyDir /\ mres = "idle"

InitPure == IdleCompare /\ IdleMerge

Init == InitPipeline /\ InitPure

\* The GUI thread handles events while the window is open.
Alive == ~closed /\ ~aborted

\* A worker whose run() has not returned.
Running(w) == workers[w].pc \in {"start", "stream"}


(***************************************************************************)
(* UpdaterApp.check_for_updates, run by the check button and by the        *)
(* startup timer.  It runs to its end on the GUI thread.                   *)
(***************************************************************************)
\* requests.get, raise_for_status or response.json() raised.
CheckRaises(trigger) ==
    /\ download_btn' = FALSE
    /\ UNCHANGED <<check_btn, update_available, update_url>>
    /\ hist' = [Step(trigger) EXCEPT
                   !.failed = TRUE, !.check = "failed", !.last = "failed",
                   !.status = "Error checking for updates",
                   !.dialog = "Update Check Failed"]

\* The response parsed to update_info = m.
CheckParsed(m, trigger) ==
    LET newer == Newer[m.version][config.current_version]
    IN  /\ update_url' = m.download_url
        /\ download_btn' = newer
        /\ update_available' = newer
        /\ UNCHANGED check_btn
        /\ hist' = [Step(trigger) EXCEPT
                       !.failed = FALSE, !.parsed = TRUE, !.manifest = m,
                       !.status = IF newer THEN "Update available"
                                  ELSE "You have the latest version",
                       !.check = IF newer THEN "UpdateAvailable" ELSE "UpToDate",
                       !.last = IF newer THEN "UpdateAvailable" ELSE "UpToDate",
                       !.last_parsed = IF newer THEN "UpdateAvailable" ELSE "UpToDate"]

check_for_updates(trigger) ==
    /\ \/ CheckRaises(trigger)
       \/ \E m \in Manifests : CheckParsed(m, trigger)
    /\ UNCHANGED <<download_thread, cfg, fs, thr, proc, pure>>

\* QTimer.singleShot(1500, self.check_for_updates): fires once, whatever the
\* buttons' state.
TimerFire ==
    /\ Alive
    /\ timer_pending
    /\ timer_pending' = FALSE
    /\ check_for_updates("TimerFire")

\* check_btn.clicked: a disabled button emits no click.
ClickCheck ==
    /\ Alive
    /\ check_btn
    /\ UNCHANGED timer_pending
    /\ check_for_updates("ClickCheck")

(***************************************************************************)
(* UpdaterApp.download_update, run by the download button.                 *)
(***************************************************************************)
StartedWorker(url) ==
    [IdleWorker EXCEPT !.pc = "start", !.url = url, !.zip_at_start = zip]

\* A plausible slip: download_update without the guard of line 424.
download_update_unguarded ==
    \E w \in Slots :
         /\ w = download_thread + 1
         /\ check_btn' = FALSE
         /\ download_btn' = FALSE
         /\ download_thread' = w
         /\ workers' = [workers EXCEPT ![w] = StartedWorker(update_url)]
         /\ hist' = [Step("download_update") EXCEPT !.failed = FALSE]
         /\ UNCHANGED <<update_available, update_url, timer_pending, queue>>

download_update ==
    IF ~update_available \/ ~Truthy(update_url)
    THEN /\ hist' = Step("download_update_return")
         /\ UNCHANGED <<gui, ctl, thr>>
    ELSE \E w \in Slots :
         /\ w = download_thread + 1
         /\ check_btn' = FALSE
         /\ download_btn' = FALSE
         /\ download_thread' = w
         /\ workers' = [workers EXCEPT ![w] = StartedWorker(update_url)]
         /\ hist' = [Step("download_update") EXCEPT !.failed = FALSE]
         /\ UNCHANGED <<update_available, update_url, timer_pending, queue>>

ClickDownload ==
    /\ Alive
    /\ download_btn
    /\ download_update
    /\ UNCHANGED <<cfg, fs, proc, pure>>


(***************************************************************************)
(* DownloadThread.run, on the worker's own thread.  log is the sequence of *)
(* the signals the worker has emitted.  The slots of progress_signal and   *)
(* status_signal (update_progress, update_status) only set the progress    *)
(* bar and the status label, which are no part of the pipeline's state;    *)
(* the emissions of completed_signal are queued to the GUI thread, which   *)
(* runs handle_download_complete for each, in the order of emission.       *)
(***************************************************************************)
Queued(evs) == SelectSeq(evs, LAMBDA e : e.sig = "completed")

\* The except branch: status_signal "Error: ...", completed_signal(False, ...).
FailureEvents(w) ==
    <<Event(w, "status_error", 0, FALSE), Event(w, "completed", 0, FALSE)>>

\* A plausible slip: the percentage of what is left to download.
Percent_remaining(downloaded, total_size) ==
    ((total_size - downloaded) * 100) \div total_size

\* line 152: int((downloaded / total_size) * 100); the float computation is
\* exact to the integer for the sizes of the model.
Percent(downloaded, total_size) == (downloaded * 100) \div total_size

\* f.write(chunk) at the worker's own file offset i (1-based); a gap left by
\* another writer's truncation reads as a hole.
WriteAt(data, i, chunk) ==
    [k \in 1..(IF Len(data) > i THEN Len(data) ELSE i) |->
        IF k = i THEN chunk ELSE IF k <= Len(data) THEN data[k] ELSE Hole]

\* The signals of one chunk: progress_signal when Content-Length was sent,
\* then status_signal "Downloading... n MB".
ChunkEvents(w, n, total_size) ==
    (IF total_size # 0
     THEN <<Event(w, "progress", Percent(n, total_size), FALSE)>> ELSE <<>>)
    \o <<Event(w, "status_downloading", n, FALSE)>>

\* Lines 156-157.
SuccessEvents(w) ==
    <<Event(w, "status_completed", 0, FALSE), Event(w, "completed", 0, TRUE)>>

\* The worker emits evs and run() returns.
Terminate(w, evs, error) ==
    /\ queue' = queue \o Queued(evs)
    /\ workers' = [workers EXCEPT
           ![w].pc = "done", ![w].error = error,
           ![w].log = workers[w].log \o evs,
           ![w].zip_same = (workers[w].pc = "start" => zip = workers[w].zip_at_start),
           ![w].zip_at_start = NoFile]

\* Lines 137-139 with a request that fails: "Starting download...", then
\* requests.get raises or raise_for_status raises for a status that is no
\* success; the except branch reports it.  zip_at_start is the staging file
\* as it was when download_update created the worker, zip_same whether it is
\* still that when the worker ends.
WorkerRequestFails(w) ==
    /\ ~aborted
    /\ workers[w].pc = "start"
    /\ Terminate(w, <<Event(w, "status_start", 0, FALSE)>> \o FailureEvents(w),
                 "http_status")
    /\ hist' = Step("WorkerRequestFails")
    /\ UNCHANGED <<gui, ctl, cfg, fs, proc, pure>>

\* Lines 137-145 with a request that succeeds: the response is the stream of
\* a package p with Content-Length cl (0 when the header is absent), and
\* open(self.download_path, 'wb') creates or truncates the staging file; it
\* raises when the staging directory is gone.  Nothing the worker does
\* between the request and the open is seen by another thread.
WorkerOpen(w) ==
    /\ ~aborted
    /\ workers[w].pc = "start"
    /\ IF temp_dir
       THEN /\ \E p \in Packages : \E cl \in ContentLengths(p) :
                 workers' = [workers EXCEPT
                     ![w].pc = "stream", ![w].pkg = p, ![w].total_size = cl,
                     ![w].left = Chunks(p), ![w].zip_at_start = NoFile,
                     ![w].log = <<Event(w, "status_start", 0, FALSE)>>]
            /\ zip' = [exists |-> TRUE, data |-> <<>>]
            /\ UNCHANGED queue
       ELSE /\ Terminate(w, <<Event(w, "status_start", 0, FALSE)>> \o FailureEvents(w),
                         "open")
            /\ UNCHANGED zip
    /\ hist' = Step("WorkerOpen")
    /\ UNCHANGED <<gui, ctl, cfg, temp_dir, extracted, live, faults, proc, pure>>

\* Lines 147-154, one chunk of the stream that is not its last: written,
\* counted, reported.
WorkerChunk(w) ==
    /\ ~aborted
    /\ workers[w].pc = "stream"
    /\ workers[w].left > 1
    /\ LET me == workers[w]
           n == me.downloaded + 1
       IN  /\ zip' = IF zip.exists
                     THEN [zip EXCEPT !.data = WriteAt(zip.data, n, <<me.pkg, n>>)]
                     ELSE zip
           /\ workers' = [workers EXCEPT
                  ![w].downloaded = n, ![w].left = me.left - 1,
                  ![w].log = me.log \o ChunkEvents(w, n, me.total_size)]
    /\ hist' = Step("WorkerChunk")
    /\ UNCHANGED <<gui, ctl, cfg, temp_dir, extracted, live, faults, queue, proc, pure>>

\* The stream breaks before its end (iter_content or f.write raises).
WorkerStreamError(w) ==
    /\ ~aborted
    /\ workers[w].pc = "stream"
    /\ Terminate(w, FailureEvents(w), "stream")
    /\ hist' = Step("WorkerStreamError")
    /\ UNCHANGED <<gui, ctl, cfg, fs, proc, pure>>

\* Lines 147-157, the last chunk of the stream: written, counted, reported;
\* the stream ends, the file is closed, "Download completed!" and
\* completed_signal(True, download_path).  Nothing the worker does after the
\* last write is seen by another thread before the signal.
WorkerFinish(w) ==
    /\ ~aborted
    /\ workers[w].pc = "stream"
    /\ workers[w].left = 1
    /\ LET me == workers[w]
           n == me.downloaded + 1
       IN  /\ zip' = IF zip.exists
                     THEN [zip EXCEPT !.data = WriteAt(zip.data, n, <<me.pkg, n>>)]
                     ELSE zip
           /\ queue' = queue \o Queued(SuccessEvents(w))
           /\ workers' = [workers EXCEPT
                  ![w].pc = "done", ![w].downloaded = n, ![w].left = 0,
                  ![w].log = me.log \o ChunkEvents(w, n, me.total_size)
                                    \o SuccessEvents(w)]
    /\ hist' = Step("WorkerFinish")
    /\ UNCHANGED <<gui, ctl, cfg, temp_dir, extracted, live, faults, proc, pure>>

\* Line 433 drops the last reference to a DownloadThread that may still be
\* running.  What becomes of a QThread destroyed while its thread runs is
\* not defined: the process goes on, or Qt aborts it ("QThread: Destroyed
\* while thread is still running") at some point before the worker's
\* completed_signal is handled.
ThreadDestroyed(w) ==
    /\ ~aborted
    /\ workers[w].pc \in {"start", "stream", "done"}
    /\ download_thread # w
    /\ aborted' = TRUE
    /\ hist' = Step("ThreadDestroyed")
    /\ UNCHANGED <<gui, ctl, cfg, fs, thr, closed, pure>>


(***************************************************************************)
(* UpdaterApp.install_update.                                              *)
(***************************************************************************)
\* ZipFile.extractall writes the entries of the archive over what the
\* directory holds and removes nothing.
RECURSIVE Overlay(_, _)
Overlay(dst, src) ==
    [n \in (DOMAIN dst) \cup (DOMAIN src) |->
        IF n \notin DOMAIN src THEN dst[n]
        ELSE IF src[n].kind = "file" THEN src[n]
        ELSE Dir(Overlay(IF n \in DOMAIN dst /\ dst[n].kind = "dir"
                         THEN dst[n].children ELSE EmptyDir,
                         src[n].children))]

\* The file is a zip archive when it holds exactly the bytes of a valid
\* package.
ValidZip(f) == f.exists /\ \E p \in Archives : f.data = PackageData(p)

ZipPackage(f) == CHOOSE p \in Archives : f.data = PackageData(p)

\* Lines 470-471: ZipFile(zip_path) raises for a file that is no archive;
\* extractall writes the entries in the archive's order and, with faulty,
\* may raise after any number of them (disk full).
ExtractOutcomes(f, tree, faulty) ==
    IF ~ValidZip(f) THEN {Outcome(tree, FALSE)}
    ELSE LET p == ZipPackage(f)
         IN  {Outcome(Overlay(tree, PackageTree(p)), TRUE)} \cup
             {Fault(Overlay(tree, PackagePrefix(p, k))) :
                 k \in IF faulty THEN 0..(Len(PackageEntries(p)) - 1) ELSE {}}

\* json.load(f) of version.json succeeds on a JSON document.
DescriptorParses(data) == data \in {"version:2.0.0", "{}", "version:null"}

\* version_info.get("version", default)
DescriptorGet(data, default) ==
    CASE data = "version:2.0.0" -> V200
      [] data = "version:null" -> None
      [] OTHER -> default

TruncatedConfig ==
    [app_name |-> "", current_version |-> None, update_url |-> "", website_url |-> ""]

\* Lines 477-488: the configuration in memory and on disk after the inner
\* try.  Reading version.json may raise (then nothing is saved); with
\* faulty, the save may raise before or after it has truncated the file.
VersionOutcomes(tree, faulty) ==
    LET present == "version.json" \in DOMAIN tree
        readable == present /\ tree["version.json"].kind = "file"
                    /\ DescriptorParses(tree["version.json"].data)
        conf == IF readable
                THEN [config EXCEPT !.current_version =
                         DescriptorGet(tree["version.json"].data,
                                       config.current_version)]
                ELSE config
    IN  IF present /\ ~readable
        THEN {[config |-> config, config_file |-> config_file, fault |-> FALSE]}
        ELSE {[config |-> conf, config_file |-> conf, fault |-> FALSE]} \cup
             (IF faulty
              THEN {[config |-> conf, config_file |-> config_file, fault |-> TRUE],
                    [config |-> conf, config_file |-> TruncatedConfig, fault |-> TRUE]}
              ELSE {})

InstallFailed(stage) ==
    /\ check_btn' = TRUE
    /\ download_btn' = TRUE
    /\ UNCHANGED cfg
    /\ hist' = [Step("install_update") EXCEPT
                   !.failed = TRUE, !.auto = hist.failed,
                   !.stage = stage, !.live_before = live,
                   !.status = "Installation failed!",
                   !.dialog = "Installation Failed"]

InstallDone(v) ==
    /\ config' = v.config
    /\ config_file' = v.config_file
    /\ check_btn' = TRUE
    /\ UNCHANGED download_btn
    /\ hist' = [Step("install_update") EXCEPT
                   !.failed = FALSE, !.auto = hist.failed,
                   !.stage = "done", !.save_failed = v.fault,
                   !.live_before = live,
                   !.status = "Update installed successfully!",
                   !.dialog = "Update Complete"]

\* A plausible slip: merging whatever the extraction has left.
Extracted_always(x) == TRUE

\* The merge (line 474) is reached only when extractall has returned.
Extracted(x) == x.ok

\* The file system may fail while fewer than MaxFaults faults have happened.
Faulty == faults < MaxFaults

install_update ==
    \E x \in ExtractOutcomes(zip, extracted.tree, Faulty) :
        /\ extracted' = [exists |-> TRUE, tree |-> x.dst]
        /\ IF ~Extracted(x)
           THEN /\ live' = live
                /\ faults' = IF x.fault THEN faults + 1 ELSE faults
                /\ InstallFailed("extract_failed")
           ELSE \E o \in copy_with_overwrite(x.dst, live, Faulty /\ ~x.fault) :
                /\ live' = o.dst
                /\ IF ~x.ok
                   THEN /\ faults' = IF x.fault THEN faults + 1 ELSE faults
                        /\ InstallFailed("extract_failed")
                   ELSE IF ~o.ok
                   THEN /\ faults' = IF o.fault THEN faults + 1 ELSE faults
                        /\ InstallFailed("merge_failed")
                   ELSE \E v \in VersionOutcomes(x.dst, Faulty) :
                        /\ faults' = IF v.fault THEN faults + 1 ELSE faults
                        /\ InstallDone(v)

\* UpdaterApp.handle_download_complete, the slot of completed_signal.
handle_download_complete ==
    /\ Alive
    /\ queue # <<>>
    /\ Head(queue).sig = "completed"
    /\ queue' = Tail(queue)
    /\ workers' = [workers EXCEPT ![Head(queue).w] = HandledWorker]
    /\ IF Head(queue).ok
       THEN install_update
       ELSE /\ check_btn' = TRUE
            /\ download_btn' = TRUE
            /\ hist' = [Step("download_failed") EXCEPT
                           !.failed = TRUE, !.status = "Download failed!",
                           !.dialog = "Download Failed"]
            /\ UNCHANGED <<cfg, extracted, live, faults>>
    /\ UNCHANGED <<ctl, temp_dir, zip, proc, pure>>

(***************************************************************************)
(* UpdaterApp.closeEvent: shutil.rmtree(self.temp_dir), errors ignored.    *)
(* With the staging file open in a worker the removal succeeds (POSIX) or  *)
(* raises and leaves the directory (Windows).  The window closes and the   *)
(* application leaves its event loop; a worker in flight is abandoned.     *)
(***************************************************************************)
closeEvent ==
    /\ Alive
    /\ closed' = TRUE
    /\ \/ /\ temp_dir' = FALSE
          /\ zip' = NoFile
          /\ extracted' = [exists |-> FALSE, tree |-> EmptyDir]
       \/ /\ \E w \in Slots : workers[w].pc = "stream"
          /\ UNCHANGED <<temp_dir, zip, extracted>>
    /\ hist' = Step("closeEvent")
    /\ UNCHANGED <<gui, ctl, cfg, live, faults, thr, aborted, pure>>

Next ==
    \/ TimerFire
    \/ ClickCheck
    \/ ClickDownload
    \/ handle_download_complete
    \/ closeEvent
    \/ \E w \in Slots : WorkerRequestFails(w)
    \/ \E w \in Slots : WorkerOpen(w)
    \/ \E w \in Slots : WorkerChunk(w)
    \/ \E w \in Slots : WorkerStreamError(w)
    \/ \E w \in Slots : WorkerFinish(w)
    \/ \E w \in Slots : ThreadDestroyed(w)

Spec == Init /\ [][Next]_vars


(***************************************************************************)
(* is_newer_version on its own: the two version strings are drawn from     *)
(* VersionInputs and compared.  A well-formed input is built from the      *)
(* tuple of integers it stands for (tuple), by formatting.                 *)
(***************************************************************************)
MaxVersionLen == 3

VersionComponents == {0, 1, 2, 10}

RECURSIVE IntToStr(_)
IntToStr(n) ==
    IF n < 10 THEN <<Digits[n + 1]>>
    ELSE IntToStr(n \div 10) \o <<Digits[(n % 10) + 1]>>

RECURSIVE FormatVersion(_)
FormatVersion(t) ==
    IF Len(t) = 1 THEN IntToStr(t[1])
    ELSE FormatVersion(SubSeq(t, 1, Len(t) - 1)) \o <<".">> \o IntToStr(t[Len(t)])

VersionTuples == UNION {[1..n -> VersionComponents] : n \in 1..MaxVersionLen}

WellFormed(t) == [str |-> FormatVersion(t), wellformed |-> TRUE, tuple |-> t]

Malformed(str) == [str |-> str, wellformed |-> FALSE, tuple |-> <<>>]

VersionInputs ==
    {WellFormed(t) : t \in VersionTuples} \cup
    {[str |-> <<"0", "1", ".", "0">>, wellformed |-> TRUE, tuple |-> <<1, 0>>],
     [str |-> <<"1", ".", "0", "0">>, wellformed |-> TRUE, tuple |-> <<1, 0>>],
     Malformed(None), Malformed(<<>>), Malformed(<<"1", ".", "x">>),
     Malformed(<<"1", ".", ".", "0">>), Malformed(<<"b", "e", "t", "a">>)}

InitVer ==
    /\ InitPipeline
    /\ IdleMerge
    /\ va \in VersionInputs
    /\ vb \in VersionInputs
    /\ vres = "idle"

Compare ==
    /\ vres = "idle"
    /\ vres' = IF is_newer_version(va.str, vb.str) THEN "newer" ELSE "not_newer"
    /\ UNCHANGED <<pipeline, va, vb, msrc, mdst0, mdst, mres>>

NextVer == Compare

SpecVer == InitVer /\ [][NextVer]_vars

(***************************************************************************)
(* copy_with_overwrite on its own: a package directory and a destination   *)
(* directory are drawn from bounded sets of trees, and merged; the file    *)
(* system may fail at any entry.                                           *)
(***************************************************************************)
MaxDepth == 1

\* The package directories of depth at most d: Updater.EXE and updater.py
\* are files or absent, lib is absent, a file, or a directory of depth d - 1.
RECURSIVE SourceTrees(_)
SourceTrees(d) ==
    LET flat == {[n \in names |-> File("new")] :
                     names \in SUBSET {"Updater.EXE", "updater.py"}}
        libs == {<<"absent">>} \cup {<<"entry", File("new")>>} \cup
                (IF d = 0 THEN {} ELSE {<<"entry", Dir(t)>> : t \in SourceTrees(d - 1)})
    IN  {IF l[1] = "absent" THEN f ELSE Put(f, "lib", l[2]) : f \in flat, l \in libs}

\* The destination directories of depth at most d: Updater.EXE and
\* updater.py are both there or both absent, lib as above.
RECURSIVE DestTrees(_)
DestTrees(d) ==
    LET flat == {EmptyDir, [n \in {"Updater.EXE", "updater.py"} |-> File("old")]}
        libs == {<<"absent">>} \cup {<<"entry", File("old")>>} \cup
                (IF d = 0 THEN {} ELSE {<<"entry", Dir(t)>> : t \in DestTrees(d - 1)})
    IN  {IF l[1] = "absent" THEN f ELSE Put(f, "lib", l[2]) : f \in flat, l \in libs}

InitMerge ==
    /\ InitPipeline
    /\ IdleCompare
    /\ msrc \in SourceTrees(MaxDepth)
    /\ mdst0 \in DestTrees(MaxDepth)
    /\ mdst = mdst0
    /\ mres = "idle"

Merge ==
    /\ mres = "idle"
    /\ \E o \in copy_with_overwrite(msrc, mdst0, TRUE) :
         /\ mdst' = o.dst
         /\ mres' = IF o.ok THEN "returned" ELSE "raised"
    /\ UNCHANGED <<pipeline, va, vb, vres, msrc, mdst0>>

NextMerge == Merge

SpecMerge == InitMerge /\ [][NextMerge]_vars

(***************************************************************************)
(* The install on its own: the pipeline from the point where the worker    *)
(* of the first download has delivered a package, any of the archives or   *)
(* the body that is none; then the install and the checks that follow.     *)
(***************************************************************************)
\* The signals of the chunks n..last of a stream.
RECURSIVE StreamEvents(_, _, _, _)
StreamEvents(w, n, last, total_size) ==
    IF n > last THEN <<>>
    ELSE ChunkEvents(w, n, total_size) \o StreamEvents(w, n + 1, last, total_size)

\* The worker w after run() has returned from the download of package p
\* with Content-Length cl.
FinishedWorker(w, p, cl) ==
    [IdleWorker EXCEPT
        !.pc = "done", !.url = PkgUrl, !.pkg = p, !.total_size = cl,
        !.downloaded = Chunks(p),
        !.log = <<Event(w, "status_start", 0, FALSE)>>
                \o StreamEvents(w, 1, Chunks(p), cl) \o SuccessEvents(w)]

InitInstall ==
    /\ InitPure
    /\ check_btn = FALSE
    /\ download_btn = FALSE
    /\ update_available = TRUE
    /\ update_url = PkgUrl
    /\ download_thread = 1
    /\ timer_pending \in BOOLEAN
    /\ config = ConfigInit
    /\ config_file = ConfigInit
    /\ temp_dir = TRUE
    /\ extracted = [exists |-> FALSE, tree |-> EmptyDir]
    /\ live = LiveInit
    /\ faults = 0
    /\ \E p \in Archives \cup {"corrupt"} : \E cl \in ContentLengths(p) :
         /\ zip = [exists |-> TRUE, data |-> PackageData(p)]
         /\ workers = [w \in Slots |->
                          IF w = 1 THEN FinishedWorker(w, p, cl) ELSE IdleWorker]
    /\ queue = Queued(SuccessEvents(1))
    /\ closed = FALSE
    /\ aborted = FALSE
    /\ hist = [HistInit EXCEPT !.op = "WorkerFinish", !.last = "UpdateAvailable",
                               !.last_parsed = "UpdateAvailable"]

NextInstall ==
    \/ handle_download_complete
    \/ TimerFire
    \/ ClickCheck
    \/ closeEvent

SpecInstall == InitInstall /\ [][NextInstall]_vars


(***************************************************************************)
(* The properties.                                                         *)
(***************************************************************************)
\* A download whose completed_signal the controller has not yet handled.
Active(w) == workers[w].pc \in {"start", "stream", "done"}

\* C1: at most one operation is active at any time: at most one worker runs
\* (and so writes update.zip), a check trigger starts no check while a
\* download is in flight, and a download trigger starts no second worker.
C1_OneOperationAtATime ==
    /\ Cardinality({w \in Slots : Running(w)}) <= 1
    /\ hist.op \in {"TimerFire", "ClickCheck"} => \A w \in Slots : ~Active(w)
    /\ hist.op = "download_update" => \A w \in Slots : Active(w) => w = download_thread

\* The tuple order of the claim, stated on the tuples the inputs were made of.
LexGreater(ta, tb) ==
    \E i \in 1..Len(ta) : ta[i] > tb[i] /\ \A j \in 1..(i - 1) : ta[j] = tb[j]

\* C2: for well-formed version strings a and b with the same number of
\* components, is_newer_version(a, b) is true exactly when the integer tuple
\* of a is lexicographically greater than that of b; is_newer_version(v, v)
\* is false.
C2_NumericOrder ==
    (vres # "idle" /\ va.wellformed /\ vb.wellformed
        /\ Len(va.tuple) = Len(vb.tuple))
    => /\ (vres = "newer") <=> LexGreater(va.tuple, vb.tuple)
       /\ va.str = vb.str => vres = "not_newer"

C2_Witness ==
    /\ vres = "newer"
    /\ va.wellformed /\ va.tuple = <<10, 0>>
    /\ vb.wellformed /\ vb.tuple = <<2, 10>>

S_1_2_0 == <<"1", ".", "2", ".", "0">>

S_1_10_0 == <<"1", ".", "1", "0", ".", "0">>

\* C3 as stated: is_newer_version("1.2.0", "1.10.0") is true.
C3_AsStated ==
    (vres # "idle" /\ va.str = S_1_2_0 /\ vb.str = S_1_10_0) => vres = "newer"

\* C3, amended: is_newer_version("1.2.0", "1.10.0") is false, for 2 < 10 as
\* integers; it is is_newer_version("1.10.0", "1.2.0") that is true.
C3_NumericNotString ==
    vres # "idle" =>
        /\ (va.str = S_1_2_0 /\ vb.str = S_1_10_0) => vres = "not_newer"
        /\ (va.str = S_1_10_0 /\ vb.str = S_1_2_0) => vres = "newer"

C3_Witness == va.str = S_1_2_0 /\ vb.str = S_1_10_0 /\ vres = "not_newer"

\* C4: a manifest that lacks version or download_url makes the check fail:
\* it does not end in UpdateAvailable, update_available is not set and the
\* download button is not enabled.
C4_MalformedManifestFails ==
    (hist.parsed /\ (hist.manifest.version = None \/ hist.manifest.download_url = None))
    => /\ hist.check = "failed"
       /\ ~update_available
       /\ ~download_btn

\* C5: when the extraction fails, the install ends in Failed and the live
\* directory is as it was before the install.
C5_ExtractFailureLeavesLive ==
    (hist.op = "install_update" /\ hist.stage = "extract_failed")
    => /\ live = hist.live_before
       /\ hist.failed
       /\ hist.dialog = "Installation Failed"

\* The extraction failed half way: part of the package is in the staging
\* directory, and the live directory is as it was.
C5_Witness ==
    /\ hist.op = "install_update" /\ hist.stage = "extract_failed"
    /\ extracted.tree # EmptyDir
    /\ "app.py" \in DOMAIN extracted.tree
    /\ live = hist.live_before

\* The names of the model that equal updater.exe or updater.py when compared
\* without regard to case.
ArtifactNames == {"Updater.EXE", "updater.exe", "UPDATER.PY", "updater.py"}

\* The entries of a tree that bear such a name, with their paths, at every
\* depth.
RECURSIVE ProtectedEntries(_, _)
ProtectedEntries(tree, path) ==
    {<<Append(path, n), tree[n]>> : n \in (DOMAIN tree) \cap ArtifactNames}
    \cup UNION {ProtectedEntries(tree[n].children, Append(path, n)) :
                  n \in {m \in (DOMAIN tree) \ ArtifactNames : tree[m].kind = "dir"}}

\* C6: the merge creates or overwrites no destination entry whose name is,
\* case-insensitively, updater.exe or updater.py, at any depth, whatever the
\* package holds and whether the merge returns or raises.
C6_UpdaterArtifactsKept ==
    mres # "idle" => ProtectedEntries(mdst, <<>>) = ProtectedEntries(mdst0, <<>>)

\* A merge that has changed the destination, of a package with Updater.EXE
\* at both depths onto a destination that has it at both depths.
C6_Witness ==
    /\ mres = "returned"
    /\ mdst # mdst0
    /\ "Updater.EXE" \in DOMAIN msrc /\ "Updater.EXE" \in DOMAIN mdst0
    /\ "lib" \in DOMAIN msrc /\ msrc["lib"].kind = "dir"
    /\ "Updater.EXE" \in DOMAIN msrc["lib"].children
    /\ "lib" \in DOMAIN mdst0 /\ mdst0["lib"].kind = "dir"
    /\ "Updater.EXE" \in DOMAIN mdst0["lib"].children

ProgressOf(log) == SelectSeq(log, LAMBDA e : e.sig = "progress")

BytesOf(log) == SelectSeq(log, LAMBDA e : e.sig = "status_downloading")

NonDecreasing(evs) ==
    \A i \in 1..Len(evs) : \A j \in i..Len(evs) : evs[i].n <= evs[j].n

\* C7: the events of a worker are ordered: percentages and byte counts do
\* not decrease, no event follows the terminal event (completed_signal), and
\* a worker whose run() has returned has emitted exactly one.
C7_WorkerEventsOrdered ==
    \A w \in Slots :
        LET log == workers[w].log
        IN  /\ NonDecreasing(ProgressOf(log))
            /\ NonDecreasing(BytesOf(log))
            /\ \A i \in 1..Len(log) : log[i].sig = "completed" => i = Len(log)
            /\ workers[w].pc = "done"
                   <=> (Len(log) > 0 /\ log[Len(log)].sig = "completed")

\* A worker that has reported two percentages, then success.
C7_Witness ==
    \E w \in Slots :
        /\ workers[w].pc = "done"
        /\ Len(ProgressOf(workers[w].log)) >= 2
        /\ workers[w].log[Len(workers[w].log)].ok

\* C8: after handle_download_complete(False, ...) the staging file no longer
\* exists and no download is in flight.
C8_PartialFileDiscarded ==
    hist.op = "download_failed"
    => /\ ~zip.exists
       /\ \A w \in Slots : ~Running(w)

\* C9: after a failure no operation starts without a new trigger, and the
\* check trigger is accepted.
C9_NoAutomaticRetry ==
    /\ ~hist.auto
    /\ (hist.failed /\ Alive) => check_btn

\* C10: a worker whose request ended with a non-success status has emitted no
\* progress event, and the staging file is as it was when its download
\* started.
C10_RequestFailureLeavesFile ==
    \A w \in Slots :
        (workers[w].error = "http_status" /\ ~closed)
        => /\ workers[w].zip_same
           /\ ProgressOf(workers[w].log) = <<>>
           /\ workers[w].log[Len(workers[w].log)] = Event(w, "completed", 0, FALSE)

\* C11: a failure of the merge step is reported to the user as an outcome
\* distinct from what an extraction failure is reported as ("Installation
\* failed!" in the status line, an "Installation Failed" dialog).
C11_MergeFailureDistinct ==
    (hist.op = "install_update" /\ hist.stage = "merge_failed")
    => <<hist.status, hist.dialog>> # <<"Installation failed!", "Installation Failed">>

\* C12: the live directory is written only by install_update, which runs
\* only for a successful completed_signal, and no other download is active
\* while it runs.
C12_LiveMutatedOnlyInInstall ==
    [][/\ live' # live => hist'.op = "install_update"
       /\ hist'.op = "install_update"
          => /\ queue # <<>>
             /\ Head(queue).sig = "completed" /\ Head(queue).ok
             /\ \A w \in Slots : w # Head(queue).w => ~Active(w)]_vars

\* C13: a worker whose stream was interrupted has emitted no successful
\* completed_signal, and the staging file exists and holds fewer bytes
\* (chunks, in the model) than the Content-Length the response reported.
C13_InterruptedDownload ==
    \A w \in Slots :
        (workers[w].pc = "done" /\ workers[w].error = "stream" /\ ~closed)
        => /\ \A i \in 1..Len(workers[w].log) :
                  workers[w].log[i].sig = "completed" => ~workers[w].log[i].ok
           /\ zip.exists
           /\ workers[w].total_size # 0 => Len(zip.data) < workers[w].total_size

\* C14: after a check that ended UpToDate, a download request starts no
\* worker until a later check ends UpdateAvailable: the check leaves
\* update_available unset, a request made then returns at once, and every
\* worker is started with UpdateAvailable as the outcome of the last check
\* that got a manifest.
C14_NoDownloadWhenUpToDate ==
    /\ hist.last_parsed = "UpToDate" => ~update_available
    /\ hist.check = "UpToDate" => ~download_btn
    /\ hist.op = "download_update" => hist.last_parsed = "UpdateAvailable"

\* A download request made after a check that ended UpToDate.
C14_Witness ==
    /\ hist.op = "download_update_return"
    /\ hist.last = "UpToDate"
    /\ \A w \in Slots : ~Running(w)

\* C20: a worker starts only when the last check that has run ended
\* UpdateAvailable, with a download URL that is not empty; after a failed
\* check a download request starts none.
C20_DownloadOnlyAfterGoodCheck ==
    hist.op = "download_update"
    => /\ hist.last = "UpdateAvailable"
       /\ update_url # None /\ update_url # EmptyStr /\ update_url # Unset

\* C15: the pipeline changes no field of the configuration but
\* current_version, in memory and in the file, and current_version changes
\* only in an install whose extraction and merge have both succeeded.
C15_OnlyCurrentVersionChanges ==
    [][/\ \A f \in {"app_name", "update_url", "website_url"} :
              config'[f] = ConfigInit[f] /\ config_file'[f] = ConfigInit[f]
       /\ (config'.current_version # config.current_version
             \/ config_file'.current_version # config_file.current_version)
          => (hist'.op = "install_update" /\ hist'.stage = "done")]_vars

\* C17: an install of a package without version.json whose extraction and
\* merge succeed reports success and leaves current_version as it was, in
\* memory and in the file, so that a manifest that was newer still is.
C17_NoDescriptorNoBump ==
    [][(/\ hist'.op = "install_update" /\ hist'.stage = "done"
        /\ ValidZip(zip)
        /\ "version.json" \notin DOMAIN PackageTree(ZipPackage(zip)))
       => /\ hist'.dialog = "Update Complete"
          /\ config'.current_version = config.current_version
          /\ config_file'.current_version = config.current_version
          /\ \A m \in Manifests :
                 Newer[m.version][config.current_version]
                     => Newer[m.version][config'.current_version]]_vars

\* C16: after closeEvent the staging directory and the files in it no longer
\* exist, whatever the pipeline was doing, and an abandoned worker does not
\* create them again.
C16_StagingRemovedOnClose ==
    closed => (~temp_dir /\ ~zip.exists /\ ~extracted.exists)

\* C19: when the save of the configuration fails after a successful merge,
\* the install still ends Done with the merged files in place, the failure
\* is reported as something distinct from plain success ("Update installed
\* successfully!", an "Update Complete" dialog), and current_version is the
\* same in memory and in the file.
C19_PersistFailureReported ==
    (hist.op = "install_update" /\ hist.save_failed)
    => /\ hist.stage = "done" /\ ~hist.failed
       /\ <<hist.status, hist.dialog>>
              # <<"Update installed successfully!", "Update Complete">>
       /\ config.current_version = config_file.current_version

\* The version.json of the package in the staging file cannot be parsed, or
\* parses to a document without a usable version field.
UnusableDescriptor(f) ==
    ValidZip(f) /\ ZipPackage(f) \in {"garbled", "nofield", "nullver"}

\* C18: an install of a package whose version.json cannot be parsed or has no
\* usable version field still ends Done, with success reported, and leaves
\* current_version as it was, in memory and in the file.
C18_BadDescriptorKeepsVersion ==
    [][(hist'.op = "install_update" /\ hist'.stage # "extract_failed"
           /\ hist'.stage # "merge_failed" /\ UnusableDescriptor(zip))
       => /\ hist'.stage = "done" /\ ~hist'.failed
          /\ hist'.dialog = "Update Complete"
          /\ config'.current_version = config.current_version
          /\ config_file'.current_version = config.current_version]_vars

\* Every entry of the directory after is the entry before has under that
\* name, or comes from the package tree pkg.
RECURSIVE OnlyFrom(_, _, _)
OnlyFrom(after, before, pkg) ==
    \A n \in DOMAIN after :
        \/ n \in DOMAIN before /\ after[n] = before[n]
        \/ /\ n \in DOMAIN pkg
           /\ IF after[n].kind = "file" THEN after[n] = pkg[n]
              ELSE /\ pkg[n].kind = "dir"
                   /\ OnlyFrom(after[n].children,
                               IF n \in DOMAIN before /\ before[n].kind = "dir"
                               THEN before[n].children ELSE EmptyDir,
                               pkg[n].children)

\* C21: an install copies into the live directory only entries of the
\* package that was downloaded for it, none that an earlier install or an
\* earlier failed extraction left in the extraction directory.
C21_OnlyPackageEntriesMerged ==
    hist.op = "install_update"
    => OnlyFrom(live, hist.live_before,
                IF ValidZip(zip) THEN PackageTree(ZipPackage(zip)) ELSE EmptyDir)

\* C22: every percentage a worker emits on progress_signal is an integer in
\* 0..100, whatever Content-Length the server sent, and a worker that got no
\* Content-Length (or 0) emits none.
C22_PercentInRange ==
    \A w \in Slots :
        LET progress == ProgressOf(workers[w].log)
        IN  /\ \A i \in 1..Len(progress) : progress[i].n \in 0..100
            /\ (workers[w].pc \in {"stream", "done"} /\ workers[w].total_size = 0)
                   => progress = <<>>

====
